---- MODULE Spec2Model ----
(***************************************************************************)
(* Model of hw8_bot_pickle.py: an address book (AddressBook of Records     *)
(* holding a Name, Phones and an optional Birthday), the command handlers  *)
(* wrapped by input_error, the upcoming-birthdays query, and the           *)
(* interactive loop of main with load_data / save_data.                    *)
(*                                                                         *)
(* A Python str is a sequence of Unicode code points (naturals).           *)
(* None is the empty sequence <<>>, a present value v is <<v>>.            *)
(* A raised exception is the field exc of a result ("" when none).         *)
(***************************************************************************)
EXTENDS Integers, Sequences, FiniteSets, TLC

VARIABLES
    book,   \* AddressBook.data: insertion-ordered sequence of [key, rec]
    file,   \* addressbook.pkl: <<>> when absent, <<book>> when written
    pc,     \* position of main: "input" (waiting in input()), "printed" (a
            \* command was run and its result printed), "exited" (break) or
            \* "crashed" (an exception left main); "returned" after a method
            \* of a Record was called directly
    line,   \* words of the line the last command was read from
    prev,   \* the book as it was when that line was read
    now,    \* <<>> or <<datetime.now()>> as read by the birthdays query
    ret,    \* <<>> or <<r>>, r what the Record/AddressBook method returned
    out     \* what the command printed: a fixed message or built text

vars == <<book, file, pc, line, prev, now, ret, out>>

---------------------------------------------------------------------------
(* Bounds of the model *)

\* a command is taken only while the book holds no more phones than this
MaxPhones == 2

\* number of Records of the Directories the birthday query is applied to
MaxRecords == 2

---------------------------------------------------------------------------
(* Strings *)

\* n copies of code point c
Rep(c, n) == [i \in 1..n |-> c]

\* code points for which str.isdigit() is True, within the model's alphabet:
\* ASCII 0-9, SUPERSCRIPT TWO/THREE (U+00B2, U+00B3), SUPERSCRIPT ONE
\* (U+00B9) and ARABIC-INDIC DIGITS (U+0660..U+0669)
PyIsDigitChar(c) == c \in 48..57 \/ c \in {178, 179, 185} \/ c \in 1632..1641

\* str.isdigit(): non-empty and every character is a digit character
isdigit(s) == Len(s) > 0 /\ \A i \in 1..Len(s) : PyIsDigitChar(s[i])

\* str.lower() on the model's alphabet (ASCII letters)
lower(s) == [i \in 1..Len(s) |-> IF s[i] \in 65..90 THEN s[i] + 32 ELSE s[i]]

\* sep.join(parts)
RECURSIVE join(_, _)
join(sep, parts) ==
    IF Len(parts) = 0 THEN <<>>
    ELSE IF Len(parts) = 1 THEN parts[1]
    ELSE parts[1] \o sep \o join(sep, Tail(parts))

---------------------------------------------------------------------------
(* Fields *)

\* Name.__init__: ValueError when the value is empty
NameCtor(value) ==
    IF Len(value) = 0 THEN [exc |-> "ValueError", value |-> <<>>]
    ELSE [exc |-> "", value |-> value]

validate_phone(value) == isdigit(value) /\ Len(value) = 10

\* Phone.__init__
Phone(value) ==
    IF ~validate_phone(value) THEN [exc |-> "ValueError", value |-> <<>>]
    ELSE [exc |-> "", value |-> value]

---------------------------------------------------------------------------
(* datetime *)

IsLeap(y) == y % 4 = 0 /\ (y % 100 # 0 \/ y % 400 = 0)

DaysInMonth(y, m) ==
    IF m = 2 THEN (IF IsLeap(y) THEN 29 ELSE 28)
    ELSE IF m \in {4, 6, 9, 11} THEN 30 ELSE 31

DaysBeforeYear(y) ==
    (y - 1) * 365 + ((y - 1) \div 4) - ((y - 1) \div 100) + ((y - 1) \div 400)

RECURSIVE DaysBeforeMonth(_, _)
DaysBeforeMonth(y, m) ==
    IF m = 1 THEN 0 ELSE DaysBeforeMonth(y, m - 1) + DaysInMonth(y, m - 1)

\* datetime(year, month, day, hour, minute, second, microsecond)
DateTime(y, m, d, hh, mm, ss, us) ==
    [year |-> y, month |-> m, day |-> d,
     hour |-> hh, minute |-> mm, second |-> ss, microsecond |-> us]

ValidDate(y, m, d) ==
    y \in 1..9999 /\ m \in 1..12 /\ d >= 1 /\ d <= DaysInMonth(y, m)

\* datetime.toordinal()
toordinal(dt) == DaysBeforeYear(dt.year) + DaysBeforeMonth(dt.year, dt.month) + dt.day

\* date.fromordinal(n) (CPython _ord2ymd)
fromordinal(n) ==
    LET n0   == n - 1
        n400 == n0 \div 146097
        r400 == n0 % 146097
        n100 == r400 \div 36524
        r100 == r400 % 36524
        n4   == r100 \div 1461
        r4   == r100 % 1461
        n1   == r4 \div 365
        r1   == r4 % 365
        y    == n400 * 400 + 1 + n100 * 100 + n4 * 4 + n1
    IN  IF n1 = 4 \/ n100 = 4 THEN [year |-> y - 1, month |-> 12, day |-> 31]
        ELSE LET m0   == (r1 + 50) \div 32
                 pre0 == DaysBeforeMonth(y, m0)
                 m    == IF pre0 > r1 THEN m0 - 1 ELSE m0
                 pre  == DaysBeforeMonth(y, m)
             IN  [year |-> y, month |-> m, day |-> r1 - pre + 1]

\* seconds since midnight
SecondOfDay(dt) == dt.hour * 3600 + dt.minute * 60 + dt.second

\* a < b on naive datetimes
Before(a, b) ==
    \/ toordinal(a) < toordinal(b)
    \/ /\ toordinal(a) = toordinal(b)
       /\ \/ SecondOfDay(a) < SecondOfDay(b)
          \/ SecondOfDay(a) = SecondOfDay(b) /\ a.microsecond < b.microsecond

\* (a - b).days: timedelta normalises so that 0 <= seconds < 86400 and
\* 0 <= microseconds < 1000000, which makes days the floor
FloorDiv(x, k) == IF x >= 0 THEN x \div k ELSE -((-x + k - 1) \div k)

\* the difference of the calendar days, the time of day dropped
DeltaDays_calendar(a, b) == toordinal(a) - toordinal(b)

DeltaDays(a, b) ==
    LET dd == toordinal(a) - toordinal(b)
        ds == SecondOfDay(a) - SecondOfDay(b)
        du == a.microsecond - b.microsecond
        s2 == ds + FloorDiv(du, 1000000)
    IN  dd + FloorDiv(s2, 86400)

\* datetime.weekday(): Monday is 0, Saturday 5, Sunday 6
weekday(dt) == (toordinal(dt) + 6) % 7

\* dt + timedelta(days=k)
PlusDays(dt, k) ==
    LET ymd == fromordinal(toordinal(dt) + k)
    IN  [dt EXCEPT !.year = ymd.year, !.month = ymd.month, !.day = ymd.day]

\* datetime.replace(year=y): ValueError when the day does not exist in y
ReplaceYear(dt, y) ==
    IF ValidDate(y, dt.month, dt.day)
    THEN [exc |-> "", value |-> [dt EXCEPT !.year = y]]
    ELSE [exc |-> "ValueError", value |-> dt]

\* two decimal digits, zero padded (%d, %m)
Fmt2(n) == <<48 + (n \div 10), 48 + (n % 10)>>

\* %Y of the C library: the year in decimal without padding
RECURSIVE FmtNat(_)
FmtNat(n) == IF n < 10 THEN <<48 + n>> ELSE FmtNat(n \div 10) \o <<48 + (n % 10)>>

\* datetime.strftime('%d.%m.%Y')
strftime(dt) == Fmt2(dt.day) \o <<46>> \o Fmt2(dt.month) \o <<46>> \o FmtNat(dt.year)

---------------------------------------------------------------------------
(* Birthday: datetime.strptime(value, '%d.%m.%Y') *)

\* \d of a str pattern: the Unicode decimal digits of the model's alphabet
ReDigit(c) == c \in 48..57 \/ c \in 1632..1641

DigitVal(c) == IF c \in 48..57 THEN c - 48 ELSE IF c \in 1632..1641 THEN c - 1632 ELSE 0

\* index of the first '.' of s, 0 when there is none
FirstDot(s) ==
    IF \E i \in 1..Len(s) : s[i] = 46
    THEN CHOOSE i \in 1..Len(s) : s[i] = 46 /\ \A j \in 1..(i - 1) : s[j] # 46
    ELSE 0

\* %d : 3[0-1] | [1-2]\d | 0[1-9] | [1-9] | ' '[1-9]
MatchesDay(f) ==
    \/ Len(f) = 1 /\ f[1] \in 49..57
    \/ /\ Len(f) = 2
       /\ \/ f[1] = 51 /\ f[2] \in 48..49
          \/ f[1] \in 49..50 /\ ReDigit(f[2])
          \/ f[1] \in {48, 32} /\ f[2] \in 49..57

\* %m : 1[0-2] | 0[1-9] | [1-9]
MatchesMonth(f) ==
    \/ Len(f) = 1 /\ f[1] \in 49..57
    \/ /\ Len(f) = 2
       /\ \/ f[1] = 49 /\ f[2] \in 48..50
          \/ f[1] = 48 /\ f[2] \in 49..57

\* %Y : \d\d\d\d
MatchesYear(f) == Len(f) = 4 /\ \A i \in 1..4 : ReDigit(f[i])

\* int() of a matched field
RECURSIVE FieldInt(_)
FieldInt(f) ==
    IF Len(f) = 0 THEN 0
    ELSE FieldInt(SubSeq(f, 1, Len(f) - 1)) * 10 + DigitVal(f[Len(f)])

\* ValueError when the text does not match the format, when text remains
\* after the year, or when the fields are no calendar date
strptime(s) ==
    LET bad == [exc |-> "ValueError", value |-> <<>>]
        i1  == FirstDot(s)
        f1  == SubSeq(s, 1, i1 - 1)
        r1  == SubSeq(s, i1 + 1, Len(s))
        i2  == FirstDot(r1)
        f2  == SubSeq(r1, 1, i2 - 1)
        f3  == SubSeq(r1, i2 + 1, Len(r1))
    IN  IF i1 = 0 \/ i2 = 0 THEN bad
        ELSE IF ~(MatchesDay(f1) /\ MatchesMonth(f2) /\ MatchesYear(f3)) THEN bad
        ELSE IF ~ValidDate(FieldInt(f3), FieldInt(f2), FieldInt(f1)) THEN bad
        ELSE [exc |-> "",
              value |-> DateTime(FieldInt(f3), FieldInt(f2), FieldInt(f1), 0, 0, 0, 0)]

\* Birthday.__init__
Birthday(value) == strptime(value)

---------------------------------------------------------------------------
(* Record *)

\* Record.__init__
Record(name) ==
    LET n == NameCtor(name)
    IN  IF n.exc # "" THEN [exc |-> n.exc, value |-> <<>>]
        ELSE [exc |-> "",
              value |-> [name |-> n.value, phones |-> <<>>, birthday |-> <<>>]]

\* Record.add_phone: the Phone is built before the append
add_phone(rec, phone) ==
    LET p == Phone(phone)
    IN  IF p.exc # "" THEN [exc |-> p.exc, rec |-> rec]
        ELSE [exc |-> "", rec |-> [rec EXCEPT !.phones = Append(@, p.value)]]

\* Record.edit_phone, the loop from index i on
RECURSIVE edit_phone_from(_, _, _, _)
edit_phone_from(rec, i, old_phone, new_phone) ==
    IF i > Len(rec.phones) THEN [exc |-> "", rec |-> rec, ret |-> FALSE]
    ELSE IF rec.phones[i] = old_phone
    THEN LET p == Phone(new_phone)
         IN  IF p.exc # "" THEN [exc |-> p.exc, rec |-> rec, ret |-> FALSE]
             ELSE [exc |-> "",
                   rec |-> [rec EXCEPT !.phones[i] = p.value],
                   ret |-> TRUE]
    ELSE edit_phone_from(rec, i + 1, old_phone, new_phone)

Occurs_in(phones, t) == \E i \in 1..Len(phones) : phones[i] = t

\* an edit that replaces every phone equal to old_phone
edit_phone_all(rec, old_phone, new_phone) ==
    IF ~Occurs_in(rec.phones, old_phone) THEN [exc |-> "", rec |-> rec, ret |-> FALSE]
    ELSE IF Phone(new_phone).exc # ""
    THEN [exc |-> Phone(new_phone).exc, rec |-> rec, ret |-> FALSE]
    ELSE [exc |-> "",
          rec |-> [rec EXCEPT !.phones =
                      [i \in 1..Len(@) |-> IF @[i] = old_phone THEN new_phone ELSE @[i]]],
          ret |-> TRUE]

edit_phone(rec, old_phone, new_phone) == edit_phone_from(rec, 1, old_phone, new_phone)

\* Record.remove_phone, the loop from index i on: the first phone whose
\* value equals phone is removed
RECURSIVE remove_phone_from(_, _, _)
remove_phone_from(rec, i, phone) ==
    IF i > Len(rec.phones) THEN [exc |-> "", rec |-> rec, ret |-> FALSE]
    ELSE IF rec.phones[i] = phone
    THEN [exc |-> "",
          rec |-> [rec EXCEPT !.phones =
                      SubSeq(@, 1, i - 1) \o SubSeq(@, i + 1, Len(@))],
          ret |-> TRUE]
    ELSE remove_phone_from(rec, i + 1, phone)

remove_phone(rec, phone) == remove_phone_from(rec, 1, phone)

\* Record.add_birthday
add_birthday_rec(rec, birthday) ==
    LET b == Birthday(birthday)
    IN  IF b.exc # "" THEN [exc |-> b.exc, rec |-> rec]
        ELSE [exc |-> "", rec |-> [rec EXCEPT !.birthday = <<b.value>>]]

---------------------------------------------------------------------------
(* AddressBook *)

\* position of the key in the dict, 0 when absent
KeyIndex(data, name) ==
    IF \E i \in 1..Len(data) : data[i].key = name
    THEN CHOOSE i \in 1..Len(data) : data[i].key = name
    ELSE 0

\* an add_record that files the Record under its name in lower case
add_record_lower(data, record) ==
    Append(data, [key |-> lower(record.name), rec |-> record])

\* AddressBook.add_record: self.data[record.name.value] = record
add_record(data, record) ==
    LET i == KeyIndex(data, record.name)
    IN  IF i = 0 THEN Append(data, [key |-> record.name, rec |-> record])
        ELSE [data EXCEPT ![i].rec = record]

\* AddressBook.find: self.data.get(name)
find(data, name) ==
    LET i == KeyIndex(data, name)
    IN  IF i = 0 THEN <<>> ELSE <<data[i].rec>>

\* a method call that mutated the Record object found under name
Mutate(data, name, rec) == [data EXCEPT ![KeyIndex(data, name)].rec = rec]

\* AddressBook.delete
delete(data, name) ==
    LET i == KeyIndex(data, name)
    IN  IF i # 0
        THEN [data |-> SubSeq(data, 1, i - 1) \o SubSeq(data, i + 1, Len(data)),
              ret |-> TRUE]
        ELSE [data |-> data, ret |-> FALSE]

\* a shift of a Saturday to the Tuesday
congratulate_three(birthday_this_year) ==
    IF weekday(birthday_this_year) = 5 THEN PlusDays(birthday_this_year, 3)
    ELSE IF weekday(birthday_this_year) = 6 THEN PlusDays(birthday_this_year, 1)
    ELSE birthday_this_year

\* lines 119-124: the weekend shift of the occurrence
congratulate(birthday_this_year) ==
    IF weekday(birthday_this_year) = 5 THEN PlusDays(birthday_this_year, 2)
    ELSE IF weekday(birthday_this_year) = 6 THEN PlusDays(birthday_this_year, 1)
    ELSE birthday_this_year

\* lines 117-129: the item appended for an occurrence, <<>> when it is
\* outside the window
item_window(name, birthday_this_year, difference_in_days) ==
    IF 0 <= difference_in_days /\ difference_in_days <= 7
    THEN [exc |-> "",
          item |-> <<[name |-> name,
                      congratulation_date |->
                          strftime(congratulate(birthday_this_year))]>>]
    ELSE [exc |-> "", item |-> <<>>]

\* lines 112-113: next year's occurrence when this year's is before today;
\* r is the result of birthday.replace(year=today.year)
roll_year(r, today) ==
    IF r.exc = "" /\ Before(r.value, today)
    THEN ReplaceYear(r.value, today.year + 1)
    ELSE r

\* line 115 on, r the occurrence or the ValueError of replace
item_rolled(name, r, today) ==
    IF r.exc # "" THEN [exc |-> r.exc, item |-> <<>>]
    ELSE item_window(name, r.value, DeltaDays(r.value, today))

\* the body of the loop of get_upcoming_birthdays for one Record that has a
\* birthday: the item appended (<<>> when none) or the exception raised
upcoming_item(record, today) ==
    item_rolled(record.name,
                roll_year(ReplaceYear(record.birthday[1], today.year), today),
                today)

\* AddressBook.get_upcoming_birthdays, the loop over self.data.values()
\* from position i on, with the list built so far
RECURSIVE upcoming_from(_, _, _, _)
upcoming_step(data, i, today, list_of_birthdays, r) ==
    IF r.exc # "" THEN [exc |-> r.exc, value |-> <<>>]
    ELSE upcoming_from(data, i + 1, today, list_of_birthdays \o r.item)

upcoming_from(data, i, today, list_of_birthdays) ==
    IF i > Len(data) THEN [exc |-> "", value |-> list_of_birthdays]
    ELSE IF data[i].rec.birthday = <<>>
    THEN upcoming_from(data, i + 1, today, list_of_birthdays)
    ELSE upcoming_step(data, i, today, list_of_birthdays,
                       upcoming_item(data[i].rec, today))

get_upcoming_birthdays(data, today) == upcoming_from(data, 1, today, <<>>)

---------------------------------------------------------------------------
(* String literals of the program, as code points *)

S_hello == <<104, 101, 108, 108, 111>>  \* "hello"
S_add == <<97, 100, 100>>  \* "add"
S_change == <<99, 104, 97, 110, 103, 101>>  \* "change"
S_phone == <<112, 104, 111, 110, 101>>  \* "phone"
S_all == <<97, 108, 108>>  \* "all"
S_remove == <<114, 101, 109, 111, 118, 101>>  \* "remove"
S_add_birthday == <<97, 100, 100, 45, 98, 105, 114, 116, 104, 100, 97, 121>>  \* "add-birthday"
S_show_birthday == <<115, 104, 111, 119, 45, 98, 105, 114, 116, 104, 100, 97, 121>>  \* "show-birthday"
S_birthdays == <<98, 105, 114, 116, 104, 100, 97, 121, 115>>  \* "birthdays"
S_exit == <<101, 120, 105, 116>>  \* "exit"
S_close == <<99, 108, 111, 115, 101>>  \* "close"

L_contact_name == <<67, 111, 110, 116, 97, 99, 116, 32, 110, 97, 109, 101, 58, 32>>  \* "Contact name: "
L_phones == <<44, 32, 112, 104, 111, 110, 101, 115, 58, 32>>  \* ", phones: "
L_birthday == <<44, 32, 98, 105, 114, 116, 104, 100, 97, 121, 58, 32>>  \* ", birthday: "
L_none == <<78, 111, 110, 101>>  \* str(None)
L_birthday_is == <<66, 105, 114, 116, 104, 100, 97, 121, 58, 32>>  \* "Birthday: "
L_name == <<78, 97, 109, 101, 58, 32>>  \* "Name: "
L_cong_date == <<46, 32, 67, 111, 110, 103, 95, 100, 97, 116, 101, 58, 32>>  \* ". Cong_date: "

\* a fixed message printed, or a text built from the data
Msg(m) == [msg |-> m, data |-> <<>>]
Text(t) == [msg |-> "", data |-> t]

\* Record.__str__
RecordStr(rec) ==
    L_contact_name \o rec.name
    \o L_phones \o join(<<59, 32>>, rec.phones)
    \o L_birthday \o (IF rec.birthday = <<>> THEN L_none ELSE strftime(rec.birthday[1]))

---------------------------------------------------------------------------
(* Command handlers.  A handler result is [exc, data, ret, out]: the       *)
(* exception that left it ("" when it returned), the AddressBook as it is  *)
(* then, what the Record/AddressBook method it called gave, and the string *)
(* returned.                                                               *)

Raise(e, data) == [exc |-> e, data |-> data, ret |-> <<>>, out |-> Msg("")]
Return(data, r, o) == [exc |-> "", data |-> data, ret |-> r, out |-> o]

\* the decorator input_error: KeyError, ValueError and IndexError become
\* strings, any other exception leaves inner
input_error(r) ==
    IF r.exc = "KeyError" THEN [r EXCEPT !.exc = "", !.out = Msg("Contact not found.")]
    ELSE IF r.exc = "ValueError" THEN [r EXCEPT !.exc = "", !.out = Msg("Give me name and phone.")]
    ELSE IF r.exc = "IndexError" THEN [r EXCEPT !.exc = "", !.out = Msg("Invalid command format. Use: add [name] [phone], change [name] [new_phone], phone [name]")]
    ELSE r

\* the loop "for p in phones: record.add_phone(p)" from position i on;
\* record is the object held at position at of the dict
RECURSIVE add_phones_from(_, _, _, _)
add_phones_step(data, at, phones, i, r) ==
    IF r.exc # "" THEN Raise(r.exc, data)
    ELSE add_phones_from([data EXCEPT ![at].rec = r.rec], at, phones, i + 1)

add_phones_from(data, at, phones, i) ==
    IF i > Len(phones) THEN Return(data, <<>>, Msg("Contact added."))
    ELSE add_phones_step(data, at, phones, i, add_phone(data[at].rec, phones[i]))

\* lines 153-158 with record the outcome of Record(name): the new Record is
\* the last entry of the dict, name not being a key of it
add_new_contact(data, record, phones) ==
    IF record.exc # "" THEN Raise(record.exc, data)
    ELSE add_phones_from(add_record(data, record.value), Len(data) + 1, phones, 1)

\* add_contact(book, args)
add_contact(data, args) ==
    input_error(
        IF Len(args) = 0 THEN Raise("IndexError", data)
        ELSE IF Len(args[1]) = 0 \/ Len(Tail(args)) = 0 THEN Raise("ValueError", data)
        ELSE IF find(data, args[1]) = <<>>
        THEN add_new_contact(data, Record(args[1]), Tail(args))
        ELSE add_phones_from(data, KeyIndex(data, args[1]), Tail(args), 1))

\* change_contact(book, *args): the call itself raises TypeError unless
\* three arguments follow book
change_contact(data, args) ==
    input_error(
        IF Len(args) # 3 THEN Raise("TypeError", data)
        ELSE LET record == find(data, args[1])
             IN  IF record = <<>> THEN Return(data, <<>>, Msg("Contact not found."))
                 ELSE LET r == edit_phone(record[1], args[2], args[3])
                      IN  IF r.exc # "" THEN [Raise(r.exc, data) EXCEPT !.ret = <<r>>]
                          ELSE IF r.ret
                          THEN Return(Mutate(data, args[1], r.rec), <<r>>,
                                      Msg("Contact updated."))
                          ELSE Return(data, <<r>>, Msg("Contact not found.")))

\* show_phone(book, *args)
show_phone(data, args) ==
    input_error(
        IF Len(args) # 1 THEN Raise("TypeError", data)
        ELSE LET record == find(data, args[1])
             IN  IF record # <<>>
                 THEN Return(data, <<>>, Text(join(<<44, 32>>, record[1].phones)))
                 ELSE Return(data, <<>>, Msg("Contact not found.")))

\* show_all(book)
show_all(data) ==
    input_error(
        IF Len(data) > 0
        THEN Return(data, <<>>,
                    Text(join(<<10>>, [i \in 1..Len(data) |-> RecordStr(data[i].rec)])))
        ELSE Return(data, <<>>, Msg("No contacts found.")))

\* remove_contact(book, *args)
remove_contact(data, args) ==
    input_error(
        IF Len(args) # 1 THEN Raise("TypeError", data)
        ELSE LET r == delete(data, args[1])
             IN  IF r.ret THEN Return(r.data, <<r.ret>>, Msg("Contact removed."))
                 ELSE Return(data, <<r.ret>>, Msg("Contact not found.")))

\* add_birthday(book, *args)
add_birthday(data, args) ==
    input_error(
        IF Len(args) # 2 THEN Raise("TypeError", data)
        ELSE LET record == find(data, args[1])
             IN  IF record # <<>>
                 THEN LET r == add_birthday_rec(record[1], args[2])
                      IN  IF r.exc # "" THEN Raise(r.exc, data)
                          ELSE Return(Mutate(data, args[1], r.rec), <<>>,
                                      Msg("Birthday added."))
                 ELSE Return(data, <<>>, Msg("Contact not found.")))

\* show_birthday(book, *args)
show_birthday(data, args) ==
    input_error(
        IF Len(args) # 1 THEN Raise("TypeError", data)
        ELSE LET record == find(data, args[1])
             IN  IF record # <<>> /\ record[1].birthday # <<>>
                 THEN Return(data, <<>>,
                             Text(L_birthday_is \o strftime(record[1].birthday[1])))
                 ELSE Return(data, <<>>, Msg("Contact not found.")))

\* birthdays(book), with today the value datetime.now() gives the query
birthdays(data, today) ==
    input_error(
        LET records == get_upcoming_birthdays(data, today)
        IN  IF records.exc # "" THEN [Raise(records.exc, data) EXCEPT !.ret = <<records>>]
            ELSE IF Len(records.value) > 0
            THEN Return(data, <<records>>,
                        Text(join(<<10>>,
                                  [i \in 1..Len(records.value) |->
                                      L_name \o records.value[i].name \o L_cong_date
                                      \o records.value[i].congratulation_date])))
            ELSE Return(data, <<records>>, Msg("No upcoming birthdays.")))

---------------------------------------------------------------------------
(* Persistence *)

\* save_data: the pickle of the book replaces the file
save_data(data) == <<data>>

\* load_data: the unpickled book, or a new AddressBook when there is no file
load_data(f) == IF f = <<>> THEN <<>> ELSE f[1]

---------------------------------------------------------------------------
(* main *)

\* user_input.strip().split(maxsplit=3) of a line whose whitespace-separated
\* words are toks: at most three splits, the rest stays one string
split3(toks) ==
    IF Len(toks) <= 4 THEN toks
    ELSE SubSeq(toks, 1, 3) \o <<join(<<32>>, SubSeq(toks, 4, Len(toks)))>>

\* parse_input: parts[0] raises IndexError on a line without words
parse_input(toks) ==
    LET parts == split3(toks)
    IN  IF Len(parts) = 0 THEN [exc |-> "IndexError", command |-> <<>>, args |-> <<>>]
        ELSE [exc |-> "", command |-> lower(parts[1]), args |-> Tail(parts)]

\* the if/elif chain of main for a command other than exit and close
dispatch(data, command, args, today) ==
    IF command = S_hello THEN Return(data, <<>>, Msg("How can I help you?"))
    ELSE IF command = S_add THEN add_contact(data, args)
    ELSE IF command = S_change THEN change_contact(data, args)
    ELSE IF command = S_phone THEN show_phone(data, args)
    ELSE IF command = S_all THEN show_all(data)
    ELSE IF command = S_remove THEN remove_contact(data, args)
    ELSE IF command = S_add_birthday THEN add_birthday(data, args)
    ELSE IF command = S_show_birthday THEN show_birthday(data, args)
    ELSE IF command = S_birthdays THEN birthdays(data, today)
    ELSE Return(data, <<>>, Msg("Invalid command."))

---------------------------------------------------------------------------
(* Inputs of the interactive session *)

N_a == <<65, 108>>  \* "Al"
N_b == <<98, 111>>  \* "bo"
Names == {N_a, N_b}

P1 == Rep(49, 10)       \* "1111111111"
P2 == Rep(50, 10)       \* "2222222222"
PSup == Rep(178, 10)    \* ten times SUPERSCRIPT TWO
PShort == <<49, 50, 51>>  \* "123"
PhoneWords == {P1, P2, PSup, PShort}

D_ok == <<49, 50, 46, 48, 54, 46, 49, 57, 57, 48>>  \* "12.06.1990"
D_leap == <<50, 57, 46, 48, 50, 46, 50, 48, 50, 52>>  \* "29.02.2024"
D_bad == <<51, 49, 46, 48, 52, 46, 50, 48, 48, 48>>  \* "31.04.2000"
DateWords == {D_ok, D_leap, D_bad}

S_HELLO == <<72, 69, 76, 76, 79>>  \* "HELLO"
S_Add == <<65, 100, 100>>  \* "Add"
S_foo == <<102, 111, 111>>  \* "foo"

\* lines by the command they reach, with too few, the right number of and too
\* many arguments
HelloLines == {<<S_hello>>, <<S_HELLO>>, <<S_hello, N_a>>}
AddLines ==
    {<<S_add>>, <<S_Add, N_a, P1>>, <<S_add, N_a, P1, P2, P1>>}
    \cup {<<S_add, n>> : n \in Names}
    \cup {<<S_add, n, p>> : n \in Names, p \in PhoneWords}
    \cup {<<S_add, n, p, q>> : n \in Names, p \in PhoneWords, q \in PhoneWords}
ChangeLines ==
    {<<S_change>>, <<S_change, N_a, P1, P2, P1>>}
    \cup {<<S_change, n>> : n \in Names}
    \cup {<<S_change, n, p>> : n \in Names, p \in PhoneWords}
    \cup {<<S_change, n, p, q>> : n \in Names, p \in PhoneWords, q \in PhoneWords}
PhoneLines == {<<S_phone>>} \cup {<<S_phone, n>> : n \in Names} \cup {<<S_phone, N_a, P1>>}
AllLines == {<<S_all>>, <<S_all, N_a>>}
RemoveLines == {<<S_remove>>} \cup {<<S_remove, n>> : n \in Names} \cup {<<S_remove, N_a, N_b>>}
AddBirthdayLines ==
    {<<S_add_birthday>>, <<S_add_birthday, N_a, D_ok, D_ok>>}
    \cup {<<S_add_birthday, n>> : n \in Names}
    \cup {<<S_add_birthday, n, d>> : n \in Names, d \in DateWords}
ShowBirthdayLines ==
    {<<S_show_birthday>>} \cup {<<S_show_birthday, n>> : n \in Names}
    \cup {<<S_show_birthday, N_a, N_b>>}
BirthdaysLines == {<<S_birthdays>>}
ExitLines == {<<S_exit>>, <<S_close>>}
OtherLines == {<<S_foo>>, <<S_foo, N_a>>}

\* values of datetime.now() seen by the session
Nows == {DateTime(2025, 6, 10, 0, 0, 0, 0), DateTime(2025, 6, 10, 12, 30, 0, 0)}

\* no value of the clock is read by a command other than birthdays
NoClock == DateTime(1, 1, 1, 0, 0, 0, 0)

---------------------------------------------------------------------------
(* The session *)

RECURSIVE TotalPhones(_)
TotalPhones(data) ==
    IF Len(data) = 0 THEN 0 ELSE Len(data[1].rec.phones) + TotalPhones(Tail(data))

WithinBounds(data) == TotalPhones(data) <= MaxPhones

\* addressbook.pkl at startup: absent, or left by a session that ran
\* "add Al 1111111111" and "exit"
FilesAtStart == {<<>>, save_data(add_contact(<<>>, <<N_a, P1>>).data)}

Init ==
    /\ file \in FilesAtStart
    /\ book = load_data(file)
    /\ pc = "input"
    /\ line = <<>>
    /\ prev = book
    /\ now = <<>>
    /\ ret = <<>>
    /\ out = Msg("Welcome to the assistant bot!")

\* lines 243-266 once the handler has given r (or raised r.exc)
Finish(r, command, today) ==
    /\ WithinBounds(r.data)
    /\ book' = r.data
    /\ ret' = r.ret
    /\ now' = IF command = S_birthdays THEN <<today>> ELSE <<>>
    /\ UNCHANGED file
    /\ IF r.exc # ""
       THEN pc' = "crashed" /\ out' = Msg(r.exc)
       ELSE pc' = "printed" /\ out' = r.out

\* lines 241-266 with p the outcome of parse_input
Run(p, today) ==
    IF p.exc # ""
    THEN /\ pc' = "crashed"
         /\ out' = Msg(p.exc)
         /\ UNCHANGED <<book, file>>
         /\ now' = <<>>
         /\ ret' = <<>>
    ELSE IF p.command \in {S_exit, S_close}
    THEN /\ file' = save_data(book)
         /\ out' = Msg("Good bye!")
         /\ pc' = "exited"
         /\ UNCHANGED book
         /\ now' = <<>>
         /\ ret' = <<>>
    ELSE Finish(dispatch(book, p.command, p.args, today), p.command, today)

\* one turn of the while loop of main on the line toks
Step(toks, today) ==
    /\ line' = toks
    /\ prev' = book
    /\ Run(parse_input(toks), today)

\* the loop of main goes back to input() for the next line
Prompt ==
    /\ pc \in {"printed", "returned"}
    /\ pc' = "input"
    /\ line' = <<>>
    /\ prev' = book
    /\ now' = <<>>
    /\ ret' = <<>>
    /\ out' = Msg("")
    /\ UNCHANGED <<book, file>>

Hello ==
    /\ pc = "input"
    /\ \E l \in HelloLines : Step(l, NoClock)
Add ==
    /\ pc = "input"
    /\ \E l \in AddLines : Step(l, NoClock)
Change ==
    /\ pc = "input"
    /\ \E l \in ChangeLines : Step(l, NoClock)
ShowPhone ==
    /\ pc = "input"
    /\ \E l \in PhoneLines : Step(l, NoClock)
ShowAll ==
    /\ pc = "input"
    /\ \E l \in AllLines : Step(l, NoClock)
Remove ==
    /\ pc = "input"
    /\ \E l \in RemoveLines : Step(l, NoClock)
AddBirthday ==
    /\ pc = "input"
    /\ \E l \in AddBirthdayLines : Step(l, NoClock)
ShowBirthday ==
    /\ pc = "input"
    /\ \E l \in ShowBirthdayLines : Step(l, NoClock)
Birthdays ==
    /\ pc = "input"
    /\ \E l \in BirthdaysLines, today \in Nows : Step(l, today)
Exit ==
    /\ pc = "input"
    /\ \E l \in ExitLines : Step(l, NoClock)
InvalidCommand ==
    /\ pc = "input"
    /\ \E l \in OtherLines : Step(l, NoClock)
EmptyLine ==
    /\ pc = "input"
    /\ Step(<<>>, NoClock)

\* the outcome r of a method called on the Record found under name
Called(name, r) ==
    /\ book' = Mutate(book, name, r.rec)
    /\ ret' = <<[exc |-> r.exc, ret |-> r.ret]>>
    /\ pc' = "returned"
    /\ line' = <<>>
    /\ prev' = book
    /\ now' = <<>>
    /\ out' = Msg("")
    /\ UNCHANGED file

\* book.find(name).remove_phone(phone), called on the classes directly: no
\* command of main reaches remove_phone
RemovePhone ==
    /\ pc = "input"
    /\ \E name \in Names, phone \in PhoneWords :
           /\ find(book, name) # <<>>
           /\ Called(name, remove_phone(find(book, name)[1], phone))

Next ==
    \/ RemovePhone
    \/ Hello
    \/ Add
    \/ Change
    \/ ShowPhone
    \/ ShowAll
    \/ Remove
    \/ AddBirthday
    \/ ShowBirthday
    \/ Birthdays
    \/ Exit
    \/ InvalidCommand
    \/ EmptyLine
    \/ Prompt

Spec == Init /\ [][Next]_vars

---------------------------------------------------------------------------
(* The birthday query on its own: Directories built by add and             *)
(* add-birthday commands, queried at reference instants around weekends,   *)
(* the turn of the year and the end of February.                           *)

BDates ==
    {<<48, 57, 46, 48, 54, 46, 49, 57, 57, 48>>,
     <<49, 48, 46, 48, 54, 46, 49, 57, 57, 48>>,
     <<49, 49, 46, 48, 54, 46, 49, 57, 57, 48>>,
     <<49, 50, 46, 48, 54, 46, 49, 57, 57, 48>>,
     <<49, 52, 46, 48, 54, 46, 49, 57, 57, 48>>,
     <<49, 53, 46, 48, 54, 46, 49, 57, 57, 48>>,
     <<49, 55, 46, 48, 54, 46, 49, 57, 56, 53>>,
     <<49, 56, 46, 48, 54, 46, 49, 57, 57, 48>>,
     <<50, 48, 46, 48, 54, 46, 49, 57, 57, 48>>,
     <<48, 49, 46, 48, 49, 46, 49, 57, 57, 48>>,
     <<48, 53, 46, 48, 49, 46, 49, 57, 56, 48>>,
     <<48, 54, 46, 48, 49, 46, 49, 57, 56, 49>>,
     <<48, 51, 46, 48, 49, 46, 49, 57, 57, 50>>,
     <<50, 55, 46, 48, 50, 46, 49, 57, 57, 57>>,
     <<50, 57, 46, 48, 50, 46, 50, 48, 48, 48>>,
     <<49, 46, 51, 46, 50, 48, 48, 49>>}
\* 09.06.1990, 10.06.1990, 11.06.1990, 12.06.1990, 14.06.1990, 15.06.1990, 17.06.1985, 18.06.1990, 20.06.1990, 01.01.1990, 05.01.1980, 06.01.1981, 03.01.1992, 27.02.1999, 29.02.2000, 1.3.2001

\* no birthday, or the text given to add-birthday
BirthdayChoices == {<<>>} \cup {<<d>> : d \in BDates}

\* the k-th name added: "b" before "a" when there are two
NameB(k) == <<96 + MaxRecords + 1 - k>>

\* the book after "add <name> 1111111111" and, when a birthday is chosen,
\* "add-birthday <name> <text>" for the first k names
RECURSIVE BuildBook(_, _)
BuildStep(data, name, choice) ==
    IF choice = <<>> THEN data
    ELSE add_birthday(data, <<name, choice[1]>>).data

BuildBook(choices, k) ==
    IF k = 0 THEN <<>>
    ELSE BuildStep(add_contact(BuildBook(choices, k - 1), <<NameB(k), P1>>).data,
                   NameB(k), choices[k])

BooksB ==
    {BuildBook(c, Len(c)) :
        c \in UNION {[1..k -> BirthdayChoices] : k \in 0..MaxRecords}}

\* Fri 06.06.2025, Sat 07.06.2025, Tue 10.06.2025, Mon 29.12.2025,
\* Tue 27.02.2024 (leap), Thu 27.02.2025, Tue 05.03.2024 (leap)
RefDays ==
    {<<2025, 6, 6>>, <<2025, 6, 7>>, <<2025, 6, 10>>, <<2025, 12, 29>>,
     <<2024, 2, 27>>, <<2025, 2, 27>>, <<2024, 3, 5>>}

\* 00:00:00, 00:00:00.000001, 12:30:00, 23:59:59.999999
RefTimes == {<<0, 0, 0, 0>>, <<0, 0, 0, 1>>, <<12, 30, 0, 0>>, <<23, 59, 59, 999999>>}

NowsB == {DateTime(d[1], d[2], d[3], t[1], t[2], t[3], t[4]) : d \in RefDays, t \in RefTimes}

InitB ==
    /\ file = <<>>
    /\ book \in BooksB
    /\ pc = "input"
    /\ line = <<>>
    /\ prev = book
    /\ now = <<>>
    /\ ret = <<>>
    /\ out = Msg("")

BirthdaysB ==
    /\ pc = "input"
    /\ \E today \in NowsB : Step(<<S_birthdays>>, today)

NextB ==
    \/ BirthdaysB
    \/ Prompt

SpecB == InitB /\ [][NextB]_vars

---------------------------------------------------------------------------
(* Properties *)

\* the command and the arguments of the line the last command was read from
Cmd == IF Len(line) = 0 THEN <<>> ELSE lower(split3(line)[1])
Args == IF Len(line) = 0 THEN <<>> ELSE Tail(split3(line))

\* a command has been run on the line and its result printed
Ran(c) == pc = "printed" /\ Cmd = c

\* the phones of the Record under name, <<>> when there is none
PhonesOf(data, name) ==
    IF \E i \in 1..Len(data) : data[i].key = name
    THEN (CHOOSE e \in {data[i] : i \in 1..Len(data)} : e.key = name).rec.phones
    ELSE <<>>

Has(data, name) == \E i \in 1..Len(data) : data[i].key = name

\* the decimal digits 0-9
IsDecimalDigit(c) == c \in 48..57

\* ten decimal digits 0-9
TenDecimalDigits(t) == Len(t) = 10 /\ \A i \in 1..Len(t) : IsDecimalDigit(t[i])

(* C1: no line read by main is fatal: whatever the line (empty, unknown     *)
(* command, a command with too few or too many arguments) main prints a     *)
(* string and reads on, and it ends only through exit or close.             *)
C1_NoInputIsFatal ==
    /\ pc # "crashed"
    /\ pc = "exited" => Cmd \in {S_exit, S_close}

(* C2: an add command that fails validation leaves the Directory exactly as *)
(* it was before the command: no contact is created and no phone appended.  *)
C2_FailedAddLeavesBookUnchanged ==
    (Ran(S_add) /\ out = Msg("Give me name and phone.")) => book = prev

(* C3: whenever the process has ended, what the next startup loads is the   *)
(* in-memory Directory of that moment.                                      *)
C3_PersistedEqualsMemoryAtEnd ==
    pc \in {"exited", "crashed"} => load_data(file) = book

(* C4: every key of the Directory equals the name of the Record stored      *)
(* under it, the name is not empty, it is the name the Record was created   *)
(* with by add, and a Record kept by a command keeps its name.              *)
C4_KeyEqualsName ==
    /\ \A i \in 1..Len(book) :
          /\ book[i].key = book[i].rec.name
          /\ Len(book[i].rec.name) >= 1
    /\ \A i, j \in 1..Len(book) : book[i].key = book[j].key => i = j
    /\ \A i \in 1..Len(prev) : \A j \in 1..Len(book) :
          prev[i].key = book[j].key => prev[i].rec.name = book[j].rec.name
    /\ (Ran(S_add) /\ Len(Args) >= 1 /\ ~Has(prev, Args[1]))
          => \A i \in 1..Len(book) :
                 Has(prev, book[i].key) \/ book[i].rec.name = Args[1]

\* two Records under their keys, one of them given a second phone and a
\* birthday after its creation
C4_Witness ==
    /\ Ran(S_add_birthday)
    /\ out = Msg("Birthday added.")
    /\ Len(book) = 2
    /\ \E i \in 1..2 : book[i].rec.birthday # <<>> /\ Len(book[i].rec.phones) = 2

(* C5: every phone stored in every Record is a string of exactly ten        *)
(* decimal digits.                                                          *)
C5_PhonesAreTenDecimalDigits ==
    \A i \in 1..Len(book) :
        \A k \in 1..Len(book[i].rec.phones) : TenDecimalDigits(book[i].rec.phones[k])

(* C8 as stated: change <name> <old> <new> on an existing Record: with no   *)
(* phone equal to old the phones are unchanged and the result is false;     *)
(* with some phone equal to old the first such entry, and only it, becomes  *)
(* new and the result is true.                                              *)
FirstIndex(phones, t) ==
    CHOOSE i \in 1..Len(phones) : phones[i] = t /\ \A j \in 1..(i - 1) : phones[j] # t

Occurs(phones, t) == \E i \in 1..Len(phones) : phones[i] = t

ChangeOnRecord == pc = "printed" /\ Cmd = S_change /\ Len(Args) = 3 /\ Has(prev, Args[1])

OldAbsentCase ==
    (ChangeOnRecord /\ ~Occurs(PhonesOf(prev, Args[1]), Args[2]))
        => /\ PhonesOf(book, Args[1]) = PhonesOf(prev, Args[1])
           /\ book = prev
           /\ ret[1].exc = "" /\ ret[1].ret = FALSE

ReplacedFirst ==
    /\ PhonesOf(book, Args[1]) =
           [PhonesOf(prev, Args[1])
               EXCEPT ![FirstIndex(PhonesOf(prev, Args[1]), Args[2])] = Args[3]]
    /\ \A i \in 1..Len(book) :
           book[i].key # Args[1] => book[i] = prev[i]
    /\ Len(book) = Len(prev)
    /\ ret[1].exc = "" /\ ret[1].ret = TRUE
    /\ out = Msg("Contact updated.")

C8_EditPhoneAsStated ==
    /\ OldAbsentCase
    /\ (ChangeOnRecord /\ Occurs(PhonesOf(prev, Args[1]), Args[2])) => ReplacedFirst

(* C8 amended: as stated when new is accepted as a phone; when some phone   *)
(* equals old and new is not accepted, ValueError is raised and the phones  *)
(* are unchanged.                                                           *)
C8_EditPhone ==
    /\ OldAbsentCase
    /\ (ChangeOnRecord /\ Occurs(PhonesOf(prev, Args[1]), Args[2])
            /\ Len(Args[3]) = 10 /\ isdigit(Args[3]))
          => ReplacedFirst
    /\ (ChangeOnRecord /\ Occurs(PhonesOf(prev, Args[1]), Args[2])
            /\ ~(Len(Args[3]) = 10 /\ isdigit(Args[3])))
          => /\ book = prev
             /\ ret[1].exc = "ValueError"
             /\ out = Msg("Give me name and phone.")

\* the first of two equal phones was replaced, the second kept
C8_Witness ==
    /\ ChangeOnRecord
    /\ PhonesOf(prev, Args[1]) = <<P1, P1>>
    /\ Args[2] = P1 /\ Args[3] = P2
    /\ PhonesOf(book, Args[1]) = <<P2, P1>>
    /\ ret[1].ret = TRUE

(* C9: the birthdays command always answers the list of name/date lines or  *)
(* "No upcoming birthdays.": the query fails for no birthday that           *)
(* add-birthday accepted.                                                   *)
C9_BirthdaysAlwaysAnswers ==
    Ran(S_birthdays)
        => /\ ret[1].exc = ""
           /\ \/ out = Msg("No upcoming birthdays.")
              \/ out.msg = "" /\ Len(ret[1].value) >= 1

---------------------------------------------------------------------------
(* Properties of the birthday query, stated on day numbers *)

\* the reference instant of the last query and what the query gave
Ref == now[1]
Got == ret[1]

AtMidnight(t) == t.hour = 0 /\ t.minute = 0 /\ t.second = 0 /\ t.microsecond = 0

\* day number of day d of month m of year y
DayNumber(y, m, d) == toordinal(DateTime(y, m, d, 0, 0, 0, 0))

\* the day/month of birthday b exists in year y
ExistsIn(b, y) == ~(b.month = 2 /\ b.day = 29 /\ ~IsLeap(y))

\* this year's occurrence is earlier than the reference instant t
Passed(b, t) ==
    \/ DayNumber(t.year, b.month, b.day) < toordinal(t)
    \/ DayNumber(t.year, b.month, b.day) = toordinal(t) /\ ~AtMidnight(t)

\* the occurrence exists: in the reference year, and in the following year
\* when it is needed
OccurrenceExists(b, t) ==
    ExistsIn(b, t.year) /\ (Passed(b, t) => ExistsIn(b, t.year + 1))

\* day number of the occurrence
Occurrence(b, t) ==
    IF Passed(b, t) THEN DayNumber(t.year + 1, b.month, b.day)
    ELSE DayNumber(t.year, b.month, b.day)

\* whole days from the reference instant to the midnight of the occurrence
WholeDays(b, t) ==
    Occurrence(b, t) - toordinal(t) - (IF AtMidnight(t) THEN 0 ELSE 1)

InWindow(b, t) ==
    OccurrenceExists(b, t) /\ 0 <= WholeDays(b, t) /\ WholeDays(b, t) <= 7

\* day numbers divisible by 7 are Sundays
Congratulation(n) == IF n % 7 = 6 THEN n + 2 ELSE IF n % 7 = 0 THEN n + 1 ELSE n

\* the pairs the claim expects, in insertion order
RECURSIVE Expected(_, _)
Expected(data, t) ==
    IF Len(data) = 0 THEN <<>>
    ELSE (IF data[1].rec.birthday # <<>> /\ InWindow(data[1].rec.birthday[1], t)
          THEN <<[name |-> data[1].rec.name,
                  day |-> Congratulation(Occurrence(data[1].rec.birthday[1], t))]>>
          ELSE <<>>)
         \o Expected(Tail(data), t)

\* the pairs emitted, each date read back from its DD.MM.YYYY text
Emitted ==
    [k \in 1..Len(Got.value) |->
        [name |-> Got.value[k].name,
         day |-> toordinal(strptime(Got.value[k].congratulation_date).value)]]

(* C6: upcomingBirthdays emits a Record exactly when it has a birthday      *)
(* whose occurrence is 0 to 7 whole days after the reference instant, with  *)
(* the occurrence shifted by 2 days from a Saturday and by 1 day from a     *)
(* Sunday, in insertion order.                                              *)
C6_UpcomingBirthdays ==
    Ran(S_birthdays) => Emitted = Expected(prev, Ref)

(* C7 as stated: no congratulation date emitted is more than 7 days after   *)
(* the reference instant.                                                   *)
C7_ShiftStaysInWindow ==
    Ran(S_birthdays) =>
        \A k \in 1..Len(Emitted) : Emitted[k].day - toordinal(Ref) <= 7

(* C7 amended: every congratulation date emitted is on or after the         *)
(* reference day and never more than 10 days after the reference instant.   *)
C7_ShiftBound ==
    Ran(S_birthdays) =>
        \A k \in 1..Len(Emitted) :
            /\ Emitted[k].day - toordinal(Ref) >= 0
            /\ Emitted[k].day - toordinal(Ref) <= 10

\* a Saturday 8 calendar days after the reference day, asked for after
\* midnight, is congratulated 10 days after the reference day
C7_Witness ==
    /\ Ran(S_birthdays)
    /\ ~AtMidnight(Ref)
    /\ \E k \in 1..Len(Emitted) : Emitted[k].day - toordinal(Ref) = 10

\* the Records of data whose birthday falls on the day and month of the
\* calendar day j days after the reference day
OnDayAfter(rec, t, j) ==
    /\ rec.birthday # <<>>
    /\ rec.birthday[1].month = fromordinal(toordinal(t) + j).month
    /\ rec.birthday[1].day = fromordinal(toordinal(t) + j).day

IsEmitted(name) == \E k \in 1..Len(Got.value) : Got.value[k].name = name

(* C10: a Record whose birthday is on the calendar day of the reference     *)
(* instant is emitted only at 00:00:00 exactly; at any later time of the    *)
(* day it is not emitted, and the Records emitted are those whose birthday  *)
(* falls 1 to 8 calendar days after the reference day.                      *)
C10_SameDayOnlyAtMidnight ==
    Ran(S_birthdays) =>
        /\ \A i \in 1..Len(prev) :
              (OnDayAfter(prev[i].rec, Ref, 0) /\ IsEmitted(prev[i].rec.name))
                  => AtMidnight(Ref)
        /\ ~AtMidnight(Ref) =>
              \A i \in 1..Len(prev) :
                  /\ IsEmitted(prev[i].rec.name)
                        => \E j \in 1..8 : OnDayAfter(prev[i].rec, Ref, j)
                  /\ (Got.exc = "" /\ \E j \in 1..8 : OnDayAfter(prev[i].rec, Ref, j))
                        => IsEmitted(prev[i].rec.name)
        /\ (AtMidnight(Ref) /\ Got.exc = "") =>
              \A i \in 1..Len(prev) :
                  OnDayAfter(prev[i].rec, Ref, 0) => IsEmitted(prev[i].rec.name)

\* after midnight a birthday of the reference day is left out while one 8
\* calendar days later is emitted
C10_Witness ==
    /\ Ran(S_birthdays)
    /\ ~AtMidnight(Ref)
    /\ Len(prev) = 2
    /\ OnDayAfter(prev[1].rec, Ref, 0) /\ ~IsEmitted(prev[1].rec.name)
    /\ OnDayAfter(prev[2].rec, Ref, 8) /\ IsEmitted(prev[2].rec.name)

====
